---------------------------- MODULE Spec2Model ----------------------------
(***************************************************************************)
(* A model of bevy_html: documents (HTMLScene) are assembled into an       *)
(* entity graph by spawn_scene (src/src/lib.rs), attribute values are      *)
(* built by construct_instance and the TypedPartialReflectDeserializer     *)
(* (src/src/typed_partial_reflect_deserializer.rs), named systems are      *)
(* called through the NamedSystemRegistry                                  *)
(* (src/src/named_system_registry.rs) and the x-attributes drive the       *)
(* find_to_run |> run_x_funcs |> swap_system pipeline (src/src/htmx.rs).   *)
(*                                                                         *)
(* A Rust panic is modelled as the terminal value of `panicked`: the       *)
(* state is left as it was at the point of the panic.                      *)
(***************************************************************************)
EXTENDS Integers, Sequences, FiniteSets, TLC

VARIABLES
    \* ---- the world: entities and their components ----
    alive,        \* set of live entity ids
    facets,       \* entity -> [type name -> instance]   (reflected components)
    children,     \* entity -> sequence of child entities (Children)
    parent,       \* entity -> parent entity, 0 for none  (Parent)
    nameOf,       \* entity -> Name component, "" for none
    handle,       \* entity -> Handle<HTMLScene> id, 0 for none
    instance,     \* set of entities carrying HTMLSceneInstance
    added,        \* entities whose Transform was added since find_to_run last ran
    changedI,     \* entities whose Interaction changed since find_to_run last ran
    nextId,       \* next entity id to allocate
    \* ---- resources ----
    assets,       \* Assets<HTMLScene>: handle id -> document key
    unloaded,     \* handles whose asset is not yet available
    number,       \* the example's Number resource
    \* ---- NamedSystemRegistry ----
    systems,      \* name -> [entity, tin, tout]
    callSlot,     \* registry entity -> "Some" | "None"   (CallNamedSystem.0)
    sysSlot,      \* registry entity -> "Some" | "None"   (NamedSystem<In,Out>.0)
    stack,        \* named systems currently executing (innermost last)
    bodyRuns,     \* registry entity -> number of times its body was started
    lastCall,     \* the last call made through the registry and its outcome
    \* ---- the PreUpdate schedule ----
    pc,           \* position in the tick
    order,        \* the order the executor chose for the tick's systems
    toRun,        \* find_to_run's output: Vec<ToRun>
    ran,          \* run_x_funcs' results so far: Vec<HTMLScene>
    cmdQueue,     \* swap_system's queued Commands, one group per swap
    ticks,        \* passes of the schedule started so far
    panicked,     \* "" or the place of the panic that ended the process
    \* ---- history (observations, not program state) ----
    pre,          \* the graph as it was when the pass began
    callLog,      \* per call of the pass: the graph the function could observe
    swapLog,      \* the last swap group applied, with the graph before it
    asmLog,       \* the assemblies of the last spawn_scene_system run
    built         \* the last direct call of construct_instance and its result

graphVars == <<alive, facets, children, parent, nameOf, handle, instance, added, changedI, nextId>>
resVars   == <<assets, unloaded, number>>
regVars   == <<systems, callSlot, sysSlot, stack, bodyRuns, lastCall>>
passVars  == <<pc, order, ticks, toRun, ran, cmdQueue>>
histVars  == <<pre, callLog, swapLog, asmLog>>
vars == <<graphVars, resVars, regVars, passVars, panicked, histVars, built>>

----------------------------------------------------------------------------
(* Bounds of the model *)

\* entity ids the world may allocate before the host stops ticking
MaxEntities == 9
\* ticks the host runs
MaxTicks == 3
\* registrations made through register_named_system
MaxRegs == 2
\* nesting depth of named-system calls
MaxDepth == 2
\* bodies started per registered system
MaxRuns == 2

----------------------------------------------------------------------------
(* Attribute text.  The text of an attribute is modelled by the token tree *)
(* ron reads from it (serde's Content), not by its characters.             *)

NoValue == [k |-> "none", s |-> "", n |-> 0, sub |-> <<>>]
CInt(n) == [k |-> "int", s |-> "", n |-> n, sub |-> <<>>]
CStr(s) == [k |-> "str", s |-> s, n |-> 0, sub |-> <<>>]
\* a bare identifier: Click
CIdent(s) == [k |-> "ident", s |-> s, n |-> 0, sub |-> <<>>]
\* Name("number"), Local(0)
CCall(s, args) == [k |-> "call", s |-> s, n |-> 0, sub |-> args]
\* count: 3, step: 2   (unparenthesised field list, as written in an attribute)
CFields(kvs) == [k |-> "fields", s |-> "", n |-> 0, sub |-> kvs]
\* (count: 3)  and ("a", 2)
CMap(kvs) == [k |-> "map", s |-> "", n |-> 0, sub |-> kvs]
CSeq(items) == [k |-> "seq", s |-> "", n |-> 0, sub |-> items]
\* text ron cannot read at all
CBad == [k |-> "bad", s |-> "", n |-> 0, sub |-> <<>>]
KV(key, c) == [key |-> key, c |-> c]


----------------------------------------------------------------------------
(* The type registry (AppTypeRegistry) as the application populated it     *)
(* before the first tick: bevy's UI components, the x-attribute components *)
(* of htmx.rs and the application's Counter.                               *)

\* TypeInfo::Struct; opaque structs are given no fields
StructTypes ==
    {"Counter", "InterimTextStyle", "Node", "Text", "Button", "Style", "Transform",
     "GlobalTransform", "InheritedVisibility", "ViewVisibility", "ContentSize",
     "TextLayoutInfo", "TextFlags", "BorderColor", "Outline", "Marker"}
\* TypeInfo::TupleStruct
TupleStructTypes == {"XFunction", "BackgroundColor"}
\* TypeInfo::Enum
EnumTypes == {"XOn", "XSwap", "XTarget", "Interaction", "Visibility", "FocusPolicy", "ZIndex"}
\* TypeInfo::Value
ValueTypes == {"i32", "String", "Color"}
RegisteredTypes == StructTypes \cup TupleStructTypes \cup EnumTypes \cup ValueTypes

\* the named fields of a struct, in declaration order
StructFields(t) ==
    CASE t = "Counter" -> << <<"count", "i32">>, <<"step", "i32">> >>
      [] t = "InterimTextStyle" -> << <<"size", "i32">>, <<"color", "Color">> >>
      [] OTHER -> <<>>
\* the field types of a tuple struct
TupleFields(t) ==
    CASE t = "XFunction" -> <<"String">>
      [] t = "BackgroundColor" -> <<"Color">>
      [] OTHER -> <<>>
\* the variants of an enum
VariantNames(t) ==
    CASE t = "XOn" -> {"Create", "Update", "Fixed", "Click", "Event"}
      [] t = "XSwap" -> {"Outer", "Inner", "Front", "Back"}
      [] t = "XTarget" -> {"This", "NextSibling", "PreviousSibling", "Root", "Name", "ChildName", "Entity"}
      [] t = "Interaction" -> {"Pressed", "Hovered", "None"}
      [] t = "Visibility" -> {"Inherited", "Hidden", "Visible"}
      [] t = "FocusPolicy" -> {"Block", "Pass"}
      [] t = "ZIndex" -> {"Local", "Global"}
      [] OTHER -> {}
\* the field types of a tuple variant (<<>> for a unit variant)
VariantFields(t, v) ==
    CASE t = "XOn" /\ v = "Fixed" -> <<"i32">>
      [] t = "XOn" /\ v = "Event" -> <<"String">>
      [] t = "XTarget" /\ v \in {"Name", "ChildName"} -> <<"String">>
      [] t = "XTarget" /\ v = "Entity" -> <<"i32">>
      [] t = "ZIndex" -> <<"i32">>
      [] OTHER -> <<>>

\* types with ReflectDeserialize / ReflectConstruct / ReflectIntoHTMLScene /
\* ReflectDefault / ReflectComponent type data
DeserializeTypes == {"i32", "String"}
ConstructTypes == {"Color"}
TemplateTypes == {"Node", "Text", "Button"}
DefaultTypes == RegisteredTypes \ {"XOn", "XFunction", "Marker"}
ComponentTypes == RegisteredTypes \ (ValueTypes \cup {"InterimTextStyle"})
\* the colours csscolorparser accepts
CssColors == {"white", "transparent", "black"}

Unit(v) == [variant |-> v, payload |-> <<>>]
\* no direct call of construct_instance was made
NoBuilt == [t |-> "", value |-> NoValue, ok |-> TRUE, v |-> <<>>]
\* font_size of TextStyle::default()
DefaultFontSize == 12
\* the value Default::default() / FromWorld gives for a type
DefaultOf(t) ==
    CASE t = "Counter" -> [count |-> 0, step |-> 1]
      [] t = "InterimTextStyle" -> [size |-> 0, color |-> "white"]
      [] t = "Text" -> [text |-> "", size |-> DefaultFontSize, color |-> "white"]
      [] t = "XFunction" -> <<"">>
      [] t = "BackgroundColor" -> <<"white">>
      [] t = "XOn" -> Unit("Create")
      [] t = "XSwap" -> Unit("Outer")
      [] t = "XTarget" -> Unit("This")
      [] t = "Interaction" -> Unit("None")
      [] t = "Visibility" -> Unit("Inherited")
      [] t = "FocusPolicy" -> Unit("Pass")
      [] t = "ZIndex" -> [variant |-> "Local", payload |-> <<0>>]
      [] t = "i32" -> 0
      [] t = "String" -> ""
      [] t = "Color" -> "white"
      [] OTHER -> <<>>

----------------------------------------------------------------------------
(* TypedPartialReflectDeserializer: Content -> dynamic (partial) value.    *)
(* A result is [ok, v]; every Err of the deserializer is unwrapped by its  *)
(* caller, so ok = FALSE stands for a panic.                               *)

Ok(v) == [ok |-> TRUE, v |-> v]
\* Op applied to the value of v, v being evaluated once
Bind(v, Op(_)) == CHOOSE r \in {Op(x) : x \in {v}} : TRUE
Err == [ok |-> FALSE, v |-> <<>>]

\* StructLikeInfo::get_field: the type of field `key`, "" when there is none
FieldType(t, key) ==
    LET fs == StructFields(t)
        hit == {i \in 1..Len(fs) : fs[i][1] = key}
    IN IF hit = {} THEN "" ELSE fs[CHOOSE i \in hit : TRUE][2]

\* Construct for Color: csscolorparser::parse(&data).ok()
ConstructColor(c) ==
    IF c.k = "str" /\ c.s \in CssColors THEN Ok(c.s) ELSE Err

RECURSIVE Deserialize(_, _)
RECURSIVE VisitMap(_, _, _, _)
RECURSIVE VisitSeq(_, _, _, _)

\* StructVisitor::visit_map: one entry per key of the text; a key that is no
\* field of the type is an error, a repeated key overwrites (insert_boxed)
VisitMap(t, kvs, i, acc) ==
    IF i > Len(kvs) THEN Ok(acc)
    ELSE LET key == kvs[i].key
             ft == FieldType(t, key)
         IN IF ft = "" \/ ft \notin RegisteredTypes THEN Err
            ELSE Bind(Deserialize(ft, kvs[i].c), LAMBDA r :
                    IF ~r.ok THEN Err
                    ELSE Bind([f \in (DOMAIN acc) \cup {key} |->
                                  IF f = key THEN r.v ELSE acc[f]], LAMBDA acc2 :
                            VisitMap(t, kvs, i + 1, acc2)))

\* TupleVisitor::visit_seq: one element per declared field, stopping early
\* when the text has fewer; elements left over are an error of the sequence
VisitSeq(fts, items, i, acc) ==
    IF i > Len(fts) THEN (IF Len(items) > Len(fts) THEN Err ELSE Ok(acc))
    ELSE IF i > Len(items) THEN Ok(acc)
    ELSE IF fts[i] \notin RegisteredTypes THEN Err
    ELSE Bind(Deserialize(fts[i], items[i]), LAMBDA r :
            IF ~r.ok THEN Err
            ELSE Bind(Append(acc, r.v), LAMBDA acc2 : VisitSeq(fts, items, i + 1, acc2)))

\* EnumVisitor::visit_enum
VisitEnum(t, c) ==
    LET v == c.s
        fts == VariantFields(t, v)
    IN IF v \notin VariantNames(t) THEN Err
       ELSE IF fts = <<>> THEN (IF c.k = "ident" THEN Ok(Unit(v)) ELSE Err)
       ELSE IF c.k # "call" THEN Err
       ELSE IF Len(fts) = 1
            THEN (IF Len(c.sub) # 1 \/ fts[1] \notin RegisteredTypes THEN Err
                  ELSE Bind(Deserialize(fts[1], c.sub[1]), LAMBDA r :
                          IF r.ok THEN Ok([variant |-> v, payload |-> <<r.v>>]) ELSE Err))
            ELSE Bind(VisitSeq(fts, c.sub, 1, <<>>), LAMBDA r :
                    IF r.ok THEN Ok([variant |-> v, payload |-> r.v]) ELSE Err)

\* DeserializeSeed::deserialize for TypedPartialReflectDeserializer
Deserialize(t, c) ==
    IF c.k \in {"bad", "fields", "none"} THEN Err
    ELSE IF t \in ConstructTypes /\ ConstructColor(c).ok THEN ConstructColor(c)
    ELSE IF t \in StructTypes
         THEN (IF c.k = "map" THEN VisitMap(t, c.sub, 1, <<>>) ELSE Err)
    ELSE IF t \in TupleStructTypes
         THEN (IF c.k = "seq" THEN VisitSeq(TupleFields(t), c.sub, 1, <<>>) ELSE Err)
    ELSE IF t \in EnumTypes
         THEN (IF c.k = "ident" /\ c.s = "None" THEN Ok(Unit("None"))
               ELSE IF c.k \in {"ident", "call"} THEN VisitEnum(t, c) ELSE Err)
    ELSE IF t \in DeserializeTypes
         THEN (IF t = "i32" /\ c.k = "int" THEN Ok(c.n)
               ELSE IF t = "String" /\ c.k = "str" THEN Ok(c.s) ELSE Err)
    ELSE Err

\* an apply that replaces the whole value by the dynamic one
ReplaceWhole(t, cur, dyn) == dyn

\* Reflect::apply: patch `cur` with the fields the dynamic value names
RECURSIVE Apply(_, _, _)
Apply(t, cur, dyn) ==
    IF t \in StructTypes
    THEN [f \in DOMAIN cur |->
            IF f \in DOMAIN dyn THEN Apply(FieldType(t, f), cur[f], dyn[f]) ELSE cur[f]]
    ELSE IF t \in TupleStructTypes
    THEN [i \in DOMAIN cur |->
            IF i \in DOMAIN dyn THEN Apply(TupleFields(t)[i], cur[i], dyn[i]) ELSE cur[i]]
    ELSE IF t \in EnumTypes
    THEN (IF cur.variant = dyn.variant
          THEN [variant |-> cur.variant,
                payload |-> [i \in DOMAIN cur.payload |->
                    IF i \in DOMAIN dyn.payload
                    THEN Apply(VariantFields(t, cur.variant)[i], cur.payload[i], dyn.payload[i])
                    ELSE cur.payload[i]]]
          ELSE dyn)
    ELSE dyn

\* "Wrap structs in parens for convenience": format!("({})", text)
WrapParens(c) ==
    IF c.k = "fields" THEN CMap(c.sub)
    ELSE IF c.k \in {"bad", "none"} THEN CBad
    ELSE CSeq(<<c>>)

\* construct_instance: the instance built for attribute type t from the
\* optional text.  ok = FALSE is a panic (the unwrap of the deserializer's
\* Err, or the panic!() of the (None, None) arm); the function never
\* returns Err.
construct_instance(t, value) ==
    Bind(IF value.k = "none" THEN Err
         ELSE Deserialize(t, IF t \in StructTypes \cup TupleStructTypes
                             THEN WrapParens(value) ELSE value), LAMBDA parsed :
       IF value.k # "none" /\ ~parsed.ok THEN Err
       ELSE IF value.k # "none" /\ t \in DefaultTypes THEN Ok(Apply(t, DefaultOf(t), parsed.v))
       ELSE IF value.k = "none" /\ t \in DefaultTypes THEN Ok(DefaultOf(t))
       ELSE IF value.k # "none" THEN Ok(parsed.v)
       ELSE Err)

\* ReflectComponent::insert: the component stored is FromWorld's value
\* patched with the reflected instance
ComponentValue(t, inst) == Apply(t, DefaultOf(t), inst)

----------------------------------------------------------------------------
(* Documents (html_parser::Dom): an element has a tag name, attributes, an  *)
(* optional id and child nodes (elements or text).  The attributes of an   *)
(* element are a HashMap<String, Option<String>>: `attrs` lists them in    *)
(* the order the map iterates them, which is the order helper sees.        *)

Attr(name, value) == [name |-> name, value |-> value]
El(tag, attrs, id, nodes) == [tag |-> tag, attrs |-> attrs, id |-> id, nodes |-> nodes]
TextNode(s) == [text |-> s]
IsElement(n) == "tag" \in DOMAIN n

\* impl Into<HTMLScene> for Node / Text / Button: the document a template
\* type expands to
TemplateDoc(t) ==
    CASE t = "Node" ->
            El("Entity",
               << Attr("Style", NoValue),
                  Attr("BackgroundColor", CStr("transparent")),
                  Attr("BorderColor", NoValue),
                  Attr("Transform", NoValue),
                  Attr("GlobalTransform", NoValue),
                  Attr("Visibility", NoValue),
                  Attr("InheritedVisibility", NoValue),
                  Attr("ViewVisibility", NoValue),
                  Attr("FocusPolicy", CIdent("Pass")),
                  Attr("ZIndex", CCall("Local", <<CInt(0)>>)) >>, "", <<>>)
      [] t = "Text" ->
            El("Node", << Attr("ContentSize", NoValue), Attr("TextLayoutInfo", NoValue),
                          Attr("TextFlags", NoValue) >>, "", <<>>)
      [] t = "Button" ->
            El("Node", << Attr("Interaction", CIdent("None")) >>, "", <<>>)

----------------------------------------------------------------------------
(* The world as a value, for the functions that transform it.              *)

World ==
    [alive |-> alive, facets |-> facets, children |-> children, parent |-> parent,
     nameOf |-> nameOf, handle |-> handle, instance |-> instance, added |-> added,
     changedI |-> changedI, nextId |-> nextId, panic |-> panicked]

DefaultTextStyle == [size |-> DefaultFontSize, color |-> "white"]

\* World::spawn_empty: a fresh identity with no component
SpawnEmpty(w) ==
    LET id == w.nextId
    IN [w EXCEPT !.alive = @ \cup {id},
                 !.facets = [x \in (DOMAIN @) \cup {id} |-> IF x = id THEN <<>> ELSE @[x]],
                 !.children = [x \in (DOMAIN @) \cup {id} |-> IF x = id THEN <<>> ELSE @[x]],
                 !.parent = [x \in (DOMAIN @) \cup {id} |-> IF x = id THEN 0 ELSE @[x]],
                 !.nameOf = [x \in (DOMAIN @) \cup {id} |-> IF x = id THEN "" ELSE @[x]],
                 !.handle = [x \in (DOMAIN @) \cup {id} |-> IF x = id THEN 0 ELSE @[x]],
                 !.nextId = id + 1]

\* reflect_component.insert / EntityWorldMut::insert: at most one component
\* per type, a later insert of the type overwrites; change detection is
\* recorded for the two components find_to_run filters on
InsertFacet(w, e, t, v) ==
    [w EXCEPT !.facets[e] = [x \in (DOMAIN @) \cup {t} |-> IF x = t THEN v ELSE @[x]],
              !.added = IF t = "Transform" /\ t \notin DOMAIN w.facets[e] THEN @ \cup {e} ELSE @,
              !.changedI = IF t = "Interaction" THEN @ \cup {e} ELSE @]

\* a push_children that appends the children last to first
PushReversed(w, e, kids) ==
    [w EXCEPT !.children[e] = @ \o [i \in 1..Len(kids) |-> kids[Len(kids) + 1 - i]],
              !.parent = [x \in DOMAIN @ |->
                            IF \E i \in 1..Len(kids) : kids[i] = x THEN e ELSE @[x]]]

\* BuildChildren::push_children: append, re-parenting each child
PushChildren(w, e, kids) ==
    [w EXCEPT !.children[e] = @ \o kids,
              !.parent = [x \in DOMAIN @ |->
                            IF \E i \in 1..Len(kids) : kids[i] = x THEN e ELSE @[x]]]

Panic(w, where) == [w EXCEPT !.panic = where]

\* the first attribute named "x", if any: its value is given to the tag entry
XValue(el) ==
    LET hit == {i \in 1..Len(el.attrs) : el.attrs[i].name = "x"}
    IN IF hit = {} THEN NoValue
       ELSE el.attrs[CHOOSE i \in hit : \A j \in hit : i <= j].value

\* the (attribute, value) sequence of an element: the tag first
Components(el) == <<Attr(el.tag, XValue(el))>> \o el.attrs

\* the first text child of an element, "" when there is none
FirstText(nodes) ==
    LET hit == {i \in 1..Len(nodes) : ~IsElement(nodes[i])}
    IN IF hit = {} THEN "" ELSE nodes[CHOOSE i \in hit : \A j \in hit : i <= j].text

RECURSIVE helper(_, _, _)
RECURSIVE ProcessComponents(_, _, _, _, _, _)
RECURSIVE SpawnElementChildren(_, _, _, _)

\* one iteration of the loop over `components` of helper, for attribute
\* comps[i] of element el on entity e; the result is [w, style]
ProcessComponent(el, comps, i, e, w, style) ==
    LET a == comps[i].name
        value == comps[i].value
    IN IF a \in {"Entity", "x"} THEN [w |-> w, style |-> style]
       ELSE IF a = "TextStyle" /\ value.k # "none"
       THEN Bind(Deserialize("InterimTextStyle", WrapParens(value)), LAMBDA r :
                IF ~r.ok THEN [w |-> Panic(w, "TextStyle: unwrap"), style |-> style]
                ELSE [w |-> w,
                      style |-> Apply("InterimTextStyle", DefaultOf("InterimTextStyle"), r.v)])
       ELSE IF a \notin RegisteredTypes
       THEN [w |-> Panic(w, "Referred to undefined component"), style |-> style]
       ELSE Bind(construct_instance(a, value), LAMBDA inst :
                IF ~inst.ok THEN [w |-> Panic(w, "construct_instance"), style |-> style]
                ELSE Bind(IF a = el.tag /\ a \in TemplateTypes
                          THEN helper(TemplateDoc(a), e, w) ELSE w, LAMBDA w1 :
                        IF w1.panic # "" THEN [w |-> w1, style |-> style]
                        ELSE IF a \notin ComponentTypes
                        THEN [w |-> Panic(w1, "Missing ReflectComponent type data"),
                              style |-> style]
                        ELSE [w |-> InsertFacet(w1, e, a, ComponentValue(a, inst.v)),
                              style |-> style]))

\* the loop over `components` of helper, from attribute i on, stopping at
\* the first panic
ProcessComponents(el, comps, i, e, w, style) ==
    IF w.panic # "" \/ i > Len(comps) THEN [w |-> w, style |-> style]
    ELSE Bind(ProcessComponent(el, comps, i, e, w, style), LAMBDA p :
            ProcessComponents(el, comps, i + 1, e, p.w, p.style))

\* the loop over html_el.children of helper: one new entity per child
\* element, assembled before the next is spawned; the result is [w, kids]
SpawnElementChildren(nodes, i, w, kids) ==
    IF w.panic # "" \/ i > Len(nodes) THEN [w |-> w, kids |-> kids]
    ELSE IF ~IsElement(nodes[i]) THEN SpawnElementChildren(nodes, i + 1, w, kids)
    ELSE Bind(helper(nodes[i], w.nextId, SpawnEmpty(w)), LAMBDA w1 :
            SpawnElementChildren(nodes, i + 1, w1, Append(kids, w.nextId)))

\* the part of helper between the component loop and the child loop: the
\* Name from the id, the Text from the first text child
NameAndText(el, e, w, style) ==
    Bind(IF el.id # "" THEN [w EXCEPT !.nameOf[e] = el.id] ELSE w, LAMBDA w1 :
        IF \E i \in 1..Len(el.nodes) : ~IsElement(el.nodes[i])
        THEN InsertFacet(w1, e, "Text",
                 [text |-> FirstText(el.nodes), size |-> style.size, color |-> style.color])
        ELSE w1)

\* spawn_scene::helper: assemble element el onto entity e
helper(el, e, w) ==
    Bind(ProcessComponents(el, Components(el), 1, e, w, DefaultTextStyle), LAMBDA p :
        IF p.w.panic # "" THEN p.w
        ELSE Bind(NameAndText(el, e, p.w, p.style), LAMBDA w2 :
                Bind(SpawnElementChildren(el.nodes, 1, w2, <<>>), LAMBDA c :
                    IF c.w.panic # "" THEN c.w ELSE PushChildren(c.w, e, c.kids))))

\* spawn_scene: assemble the document's first element onto `replace`
spawn_scene(scene, replace, w) == Bind(w, LAMBDA w0 : helper(scene, replace, w0))

----------------------------------------------------------------------------
(* NamedSystemRegistry.  register_named_system spawns one entity per       *)
(* registration holding NamedSystem<In,Out>(Some(system)) and              *)
(* CallNamedSystem(Some(closure)), and maps the name to                    *)
(* (entity, TypeId of In, TypeId of Out).                                  *)

SystemNames == {"increment", "decrement"}
\* names a caller may ask for; "missing" is never registered
CallNames == SystemNames \cup {"missing"}
InTypes == {"Unit", "String"}
OutTypes == {"HTMLScene", "i32"}

NoCall == [name |-> "", tin |-> "", outcome |-> ""]

\* a take that leaves the value in the slot: no checkout
KeepSlot(slot) == slot
\* Option::take: the value moves out and the slot is left None
Take(slot) == "None"

\* a lookup that does not return early on a name without an entry
CallEntryUnchecked(name, tin) ==
    IF name \notin DOMAIN systems THEN "take"
    ELSE IF callSlot[systems[name].entity] = "None" \/ sysSlot[systems[name].entity] = "None"
    THEN "take"
    ELSE IF tin # systems[name].tin THEN "cast"
    ELSE "run"

\* what call_reflect and the closure it runs do up to the start of the
\* system's body:
\*   "None"   self.systems.get(name)? found no entry
\*   "take"   CallNamedSystem.0 or NamedSystem.0 is None: take().unwrap() panics
\*   "cast"   in_ref.downcast().unwrap() panics: the input is not of the
\*            closure's In type (both slots have been taken by then)
\*   "run"    the body runs
CallEntry(name, tin) ==
    IF name \notin DOMAIN systems THEN "None"
    ELSE LET ent == systems[name].entity
         IN IF callSlot[ent] = "None" \/ sysSlot[ent] = "None" THEN "take"
            ELSE IF tin # systems[name].tin THEN "cast"
            ELSE "run"

\* register_named_system(name, system): last registration of a name wins
Register(name, tin, tout) ==
    /\ panicked = "" /\ stack = <<>>
    /\ Cardinality(DOMAIN callSlot) < MaxRegs
    /\ LET ent == 0 - (Cardinality(DOMAIN callSlot) + 1)
       IN /\ systems' = [n \in (DOMAIN systems) \cup {name} |->
                            IF n = name THEN [entity |-> ent, tin |-> tin, tout |-> tout]
                            ELSE systems[n]]
          /\ callSlot' = [x \in (DOMAIN callSlot) \cup {ent} |->
                            IF x = ent THEN "Some" ELSE callSlot[x]]
          /\ sysSlot' = [x \in (DOMAIN sysSlot) \cup {ent} |->
                            IF x = ent THEN "Some" ELSE sysSlot[x]]
          /\ bodyRuns' = [x \in (DOMAIN bodyRuns) \cup {ent} |->
                            IF x = ent THEN 0 ELSE bodyRuns[x]]
    /\ UNCHANGED <<stack, lastCall, panicked>>

\* NamedSystemRegistry::call -> call_reflect, up to the start of the body.
\* The caller is the host (empty stack) or the body on top of the stack.
CallEnter(name, tin, tout) ==
    /\ panicked = ""
    /\ Len(stack) < MaxDepth
    /\ LET r == CallEntry(name, tin)
       IN \/ /\ r = "None"
             /\ lastCall' = [name |-> name, tin |-> tin, outcome |-> "None"]
             /\ UNCHANGED <<systems, callSlot, sysSlot, stack, bodyRuns, panicked>>
          \/ /\ r = "take"
             /\ lastCall' = [name |-> name, tin |-> tin, outcome |-> "panic"]
             /\ panicked' = "call_reflect: take().unwrap() on None"
             /\ UNCHANGED <<systems, callSlot, sysSlot, stack, bodyRuns>>
          \/ /\ r = "cast"
             /\ lastCall' = [name |-> name, tin |-> tin, outcome |-> "panic"]
             /\ callSlot' = [callSlot EXCEPT ![systems[name].entity] = Take(@)]
             /\ sysSlot' = [sysSlot EXCEPT ![systems[name].entity] = Take(@)]
             /\ panicked' = "in_ref.downcast().unwrap()"
             /\ UNCHANGED <<systems, stack, bodyRuns>>
          \/ /\ r = "run"
             /\ bodyRuns[systems[name].entity] < MaxRuns
             /\ lastCall' = [name |-> name, tin |-> tin, outcome |-> "running"]
             /\ callSlot' = [callSlot EXCEPT ![systems[name].entity] = Take(@)]
             /\ sysSlot' = [sysSlot EXCEPT ![systems[name].entity] = Take(@)]
             /\ stack' = Append(stack, [name |-> name, entity |-> systems[name].entity,
                                        tin |-> tin, want |-> tout,
                                        tout |-> systems[name].tout])
             /\ bodyRuns' = [bodyRuns EXCEPT ![systems[name].entity] = @ + 1]
             /\ UNCHANGED <<systems, panicked>>

\* the body on top of the stack returns: the closure puts the system back,
\* call_reflect puts the closure back, call downcasts the result to Out
CallReturn ==
    /\ panicked = ""
    /\ stack # <<>>
    /\ LET f == stack[Len(stack)]
       IN /\ sysSlot' = [sysSlot EXCEPT ![f.entity] = "Some"]
          /\ callSlot' = [callSlot EXCEPT ![f.entity] = "Some"]
          /\ lastCall' = [name |-> f.name, tin |-> f.tin,
                          outcome |-> IF f.want = f.tout THEN "Some" ELSE "None"]
    /\ stack' = SubSeq(stack, 1, Len(stack) - 1)
    /\ UNCHANGED <<systems, bodyRuns, panicked>>

----------------------------------------------------------------------------
(* The documents of the application (after examples/simple.rs): the scene  *)
(* spawned at startup and the documents its named systems return.  A       *)
(* document is identified by a key; DocOf gives its first element.         *)

DocKey(kind, n, trig) == [kind |-> kind, n |-> n, trig |-> trig]

\* fn number(num): a named node holding the number
NumberDoc(n) ==
    El("Node", << Attr("Counter", CFields(<<KV("count", CInt(n))>>)) >>, "number",
       << El("Text", <<>>, "", << TextNode(n) >>) >>)
\* a document with another facet set and no children
PanelDoc == El("Node", << Attr("Outline", NoValue) >>, "", <<>>)
\* a document whose second child element names no registered type
BrokenDoc ==
    El("Node", << Attr("Counter", NoValue) >>, "",
       << El("Button", <<>>, "", <<>>), El("Row", <<>>, "", <<>>) >>)
\* the x-attributes of a trigger
TriggerAttrs(t) ==
    << Attr("XFunction", CStr(t.func)), Attr("XOn", t.on),
       Attr("XSwap", t.swap), Attr("XTarget", t.target) >>
\* the triggers of a scene placed at its root, and those placed on buttons
RECURSIVE AtRoot(_)
AtRoot(trigs) ==
    IF trigs = <<>> THEN <<>>
    ELSE (IF Head(trigs).at = "root" THEN TriggerAttrs(Head(trigs)) ELSE <<>>)
         \o AtRoot(Tail(trigs))
RECURSIVE Buttons(_)
Buttons(trigs) ==
    IF trigs = <<>> THEN <<>>
    ELSE (IF Head(trigs).at = "button"
          THEN << El("Button", TriggerAttrs(Head(trigs)), "", <<>>) >> ELSE <<>>)
         \o Buttons(Tail(trigs))
\* fn startup: a root with the trigger buttons and the number node
SceneDoc(trigs) ==
    El("Node", AtRoot(trigs), "", Buttons(trigs) \o << NumberDoc(0) >>)

DocOf(key) ==
    CASE key.kind = "number" -> NumberDoc(key.n)
      [] key.kind = "panel" -> PanelDoc
      [] key.kind = "broken" -> BrokenDoc
      [] key.kind = "scene" -> SceneDoc(key.trig)
      [] key.kind = "parsed" -> key.dom

\* the named systems the application registered, all In = (), Out = HTMLScene
AppSystems == {"increment", "panel", "broken"}
\* the registry entity register_named_system spawned for each of them
AppSystemEntity(name) ==
    CASE name = "increment" -> 0 - 1
      [] name = "panel" -> 0 - 2
      [] name = "broken" -> 0 - 3
\* the document a named system returns, given the Number resource after its
\* body ran (fn increment: num.0 += 1; number(num))
SystemResult(name, num) ==
    CASE name = "increment" -> DocKey("number", num, <<>>)
      [] name = "panel" -> DocKey("panel", 0, <<>>)
      [] name = "broken" -> DocKey("broken", 0, <<>>)
\* the Number resource after the body of a named system
SystemEffect(name, num) == IF name = "increment" THEN num + 1 ELSE num

\* the x-attribute texts of the scenes checked
This == CIdent("This")
ByName(n) == CCall("Name", <<CStr(n)>>)
ChildName(n) == CCall("ChildName", <<CStr(n)>>)
Triggers ==
    [func : {"increment", "panel"}, on : {CIdent("Update"), CIdent("Click"), CIdent("Create")},
     swap : {CIdent("Outer"), CIdent("Inner"), CIdent("Front"), CIdent("Back")},
     target : {This, ByName("number")}, at : {"button"}]
    \cup
    [func : {"broken", "missing"}, on : {CIdent("Update")},
     swap : {CIdent("Outer"), CIdent("Inner")}, target : {This}, at : {"button"}]
    \cup
    [func : {"increment"}, on : {CIdent("Update")}, swap : {CIdent("Inner"), CIdent("Back")},
     target : {ChildName("number"), ByName("nope"), CIdent("Root")}, at : {"button"}]
    \cup
    [func : {"increment"}, on : {CCall("Fixed", <<CInt(1)>>)}, swap : {CIdent("Outer")},
     target : {This}, at : {"button"}]
    \cup
    [func : {"increment"}, on : {CIdent("Update"), CIdent("Click")},
     swap : {CIdent("Outer"), CIdent("Inner"), CIdent("Back")},
     target : {This, ChildName("number")}, at : {"root"}]
\* a second trigger of the scene, firing in the same pass as the first
SecondTriggers ==
    [func : {"increment", "panel"}, on : {CIdent("Update")},
     swap : {CIdent("Outer"), CIdent("Back")},
     target : {This, ByName("number")}, at : {"button"}]

----------------------------------------------------------------------------
(* Hierarchy operations of the world (bevy_hierarchy).                     *)

\* Commands::spawn_empty reserves the id at once; the entity is alive once
\* the command is applied
Reserve(w) ==
    LET id == w.nextId
    IN [w EXCEPT !.facets = [x \in (DOMAIN @) \cup {id} |-> IF x = id THEN <<>> ELSE @[x]],
                 !.children = [x \in (DOMAIN @) \cup {id} |-> IF x = id THEN <<>> ELSE @[x]],
                 !.parent = [x \in (DOMAIN @) \cup {id} |-> IF x = id THEN 0 ELSE @[x]],
                 !.nameOf = [x \in (DOMAIN @) \cup {id} |-> IF x = id THEN "" ELSE @[x]],
                 !.handle = [x \in (DOMAIN @) \cup {id} |-> IF x = id THEN 0 ELSE @[x]],
                 !.nextId = id + 1]

\* Children::iter_descendants: breadth first
RECURSIVE Bfs(_, _)
Bfs(queue, ch) ==
    IF queue = <<>> THEN <<>>
    ELSE <<Head(queue)>> \o Bfs(Tail(queue) \o ch[Head(queue)], ch)
Descendants(w, e) == Bfs(w.children[e], w.children)
SeqToSet(s) == {s[i] : i \in 1..Len(s)}

\* a despawn_descendants that despawns nothing
KeepDescendants(w, e) == w

\* despawn_descendants: every descendant of e leaves the world, e keeps its
\* own components and has no children; nothing happens when e is not alive
DespawnDescendants(w, e) ==
    IF e \notin w.alive THEN w
    ELSE LET gone == SeqToSet(Descendants(w, e))
         IN [w EXCEPT !.alive = @ \ gone,
                      !.facets = [x \in DOMAIN @ |-> IF x \in gone THEN <<>> ELSE @[x]],
                      !.children = [x \in DOMAIN @ |-> IF x \in gone \/ x = e THEN <<>> ELSE @[x]],
                      !.parent = [x \in DOMAIN @ |-> IF x \in gone THEN 0 ELSE @[x]],
                      !.nameOf = [x \in DOMAIN @ |-> IF x \in gone THEN "" ELSE @[x]],
                      !.handle = [x \in DOMAIN @ |-> IF x \in gone THEN 0 ELSE @[x]],
                      !.instance = @ \ gone,
                      !.added = @ \ gone,
                      !.changedI = @ \ gone]

\* an insertion that ignores the index and appends
AppendChild(w, e, index, child) ==
    [w EXCEPT !.children[e] = @ \o <<child>>, !.parent[child] = e]

\* insert_children(index, &[child]) and push_children(&[child]) for one
\* child: index 0 is the front, Len is the back
InsertChildren(w, e, index, child) ==
    [w EXCEPT !.children[e] = SubSeq(@, 1, index) \o <<child>> \o SubSeq(@, index + 1, Len(@)),
              !.parent[child] = e]

\* the commands one swap queued, applied in the order they were queued.
\* Commands on an entity that is no longer alive panic (insert, add_child,
\* push_children, insert_children), except despawn_descendants.
ApplySwap(w, g) ==
    IF g.mode = "Outer"
    THEN LET w1 == DespawnDescendants(w, g.target)
         IN IF g.target \notin w1.alive THEN Panic(w1, "insert: entity does not exist")
            ELSE [w1 EXCEPT !.handle[g.target] = g.h]
    ELSE LET w1 == [w EXCEPT !.alive = @ \cup {g.child}, !.handle[g.child] = g.h]
             w2 == IF g.mode = "Inner" THEN DespawnDescendants(w1, g.target) ELSE w1
         IN IF g.target \notin w2.alive THEN Panic(w2, "add child: entity does not exist")
            ELSE InsertChildren(w2, g.target,
                     IF g.mode = "Front" THEN 0 ELSE Len(w2.children[g.target]), g.child)

----------------------------------------------------------------------------
(* The PreUpdate schedule of a tick.  XPlugin adds                          *)
(*   (find_to_run.pipe(run_x_funcs).pipe(swap_system), apply_deferred)      *)
(*       .before(spawn_scene_system)                                        *)
(* and HTMLPlugin adds spawn_scene_system.  The tuple is not chained: both  *)
(* of its systems run before spawn_scene_system, in either order.  Commands *)
(* still queued when the schedule ends are applied then.  The executor      *)
(* orders the schedule once, when it is built.                              *)

Graph == [alive |-> alive, facets |-> facets, children |-> children, parent |-> parent,
          nameOf |-> nameOf, handle |-> handle, instance |-> instance]

SetWorld(w) ==
    /\ alive' = w.alive /\ facets' = w.facets /\ children' = w.children
    /\ parent' = w.parent /\ nameOf' = w.nameOf /\ handle' = w.handle
    /\ instance' = w.instance /\ added' = w.added /\ changedI' = w.changedI
    /\ nextId' = w.nextId /\ panicked' = w.panic

Orders == {"pipe_first", "apply_first"}
\* where the tick goes once the piped system has run
AfterPipe == IF order = "pipe_first" THEN "apply" ELSE "spawn"

\* the permutations of a finite set, as sequences
RECURSIVE Perms(_)
Perms(S) ==
    IF S = {} THEN {<<>>}
    ELSE UNION {{<<x>> \o p : p \in Perms(S \ {x})} : x \in S}

\* the x-attribute components of an entity, Option<&T>.cloned().unwrap_or_default()
XEntities == {e \in alive : "XFunction" \in DOMAIN facets[e]}
XOnOf(e) == IF "XOn" \in DOMAIN facets[e] THEN facets[e]["XOn"] ELSE Unit("Create")
XSwapOf(e) == IF "XSwap" \in DOMAIN facets[e] THEN facets[e]["XSwap"] ELSE Unit("Outer")
XTargetOf(e) == IF "XTarget" \in DOMAIN facets[e] THEN facets[e]["XTarget"] ELSE Unit("This")

\* the match on XOn in find_to_run, for the kinds it implements
Triggered(e) ==
    LET on == XOnOf(e).variant
    IN \/ on = "Create" /\ e \in added
       \/ /\ on = "Click" /\ e \in changedI /\ "Interaction" \in DOMAIN facets[e]
          /\ facets[e]["Interaction"].variant = "Pressed"
       \/ on = "Update"

\* the host starts a tick
BeginTick ==
    /\ pc = "idle" /\ panicked = ""
    /\ nextId <= MaxEntities /\ ticks < MaxTicks
    /\ ticks' = ticks + 1
    /\ pc' = IF order = "pipe_first" THEN "find" ELSE "apply"
    /\ pre' = Graph
    /\ toRun' = <<>> /\ ran' = <<>> /\ callLog' = <<>> /\ swapLog' = <<>> /\ asmLog' = <<>>
    /\ UNCHANGED <<graphVars, resVars, regVars, order, built, cmdQueue, panicked>>

\* find_to_run: the triggered x-entities, in the query's iteration order;
\* the Added / Changed filters see what changed since the system last ran
FindToRun ==
    /\ pc = "find" /\ panicked = ""
    /\ IF \E e \in XEntities : XOnOf(e).variant \notin {"Create", "Click", "Update"}
       THEN /\ panicked' = "find_to_run: unimplemented!()"
            /\ UNCHANGED <<graphVars, resVars, regVars, passVars, built, histVars>>
       ELSE /\ \E p \in Perms({e \in XEntities : Triggered(e)}) :
                 /\ toRun' = [i \in 1..Len(p) |->
                                [entity |-> p[i], func |-> facets[p[i]]["XFunction"][1],
                                 on |-> XOnOf(p[i]), swap |-> XSwapOf(p[i]),
                                 target |-> XTargetOf(p[i])]]
                 /\ pc' = IF p = <<>> THEN AfterPipe ELSE "run"
            /\ added' = {} /\ changedI' = {}
            /\ UNCHANGED <<alive, facets, children, parent, nameOf, handle, instance, nextId,
                           resVars, regVars, order, built, ticks, ran, cmdQueue, panicked, histVars>>

\* a run_x_funcs that detaches the children of a trigger's node as soon as
\* its function has returned, before the next function is called
RunXFuncsEager ==
    /\ pc = "run" /\ panicked = ""
    /\ Len(ran) < Len(toRun)
    /\ LET name == toRun[Len(ran) + 1].func
           r == CallEntry(name, "Unit")
       IN IF r = "run" /\ systems[name].tout = "HTMLScene"
          THEN /\ number' = SystemEffect(name, number)
               /\ ran' = Append(ran, SystemResult(name, number'))
               /\ callLog' = Append(callLog, [name |-> name, sawPre |-> Graph = pre])
               /\ lastCall' = [name |-> name, tin |-> "Unit", outcome |-> "Some"]
               /\ pc' = IF Len(ran') = Len(toRun) THEN "swap" ELSE "run"
               /\ children' = [children EXCEPT ![toRun[Len(ran) + 1].entity] = <<>>]
               /\ UNCHANGED <<alive, facets, parent, nameOf, handle, instance, added, changedI,
                              nextId, assets, unloaded, systems, callSlot, sysSlot, stack,
                              bodyRuns, order, built, ticks, toRun, cmdQueue, panicked, pre, swapLog,
                              asmLog>>
          ELSE /\ lastCall' = [name |-> name, tin |-> "Unit",
                               outcome |-> IF r = "None" THEN "None" ELSE "panic"]
               /\ panicked' = IF r = "None" THEN "run_x_funcs: unwrap() on None"
                              ELSE "call_reflect"
               /\ UNCHANGED <<graphVars, resVars, systems, callSlot, sysSlot, stack, bodyRuns,
                              passVars, built, histVars>>

\* a run_x_funcs that collects the documents last call first, so that the
\* zip pairs the first trigger with the last result
RunXFuncsReversed ==
    /\ pc = "run" /\ panicked = ""
    /\ Len(ran) < Len(toRun)
    /\ LET name == toRun[Len(ran) + 1].func
           r == CallEntry(name, "Unit")
       IN IF r = "run" /\ systems[name].tout = "HTMLScene"
          THEN /\ number' = SystemEffect(name, number)
               /\ ran' = <<SystemResult(name, number')>> \o ran
               /\ callLog' = Append(callLog, [name |-> name, sawPre |-> Graph = pre])
               /\ lastCall' = [name |-> name, tin |-> "Unit", outcome |-> "Some"]
               /\ pc' = IF Len(ran') = Len(toRun) THEN "swap" ELSE "run"
               /\ UNCHANGED <<graphVars, assets, unloaded, systems, callSlot, sysSlot, stack,
                              bodyRuns, order, built, ticks, toRun, cmdQueue, panicked, pre, swapLog,
                              asmLog>>
          ELSE /\ lastCall' = [name |-> name, tin |-> "Unit",
                               outcome |-> IF r = "None" THEN "None" ELSE "panic"]
               /\ panicked' = IF r = "None" THEN "run_x_funcs: unwrap() on None"
                              ELSE "call_reflect"
               /\ UNCHANGED <<graphVars, resVars, systems, callSlot, sysSlot, stack, bodyRuns,
                              passVars, built, histVars>>

\* run_x_funcs, one call of its map per step:
\*   named_system_registry.call::<(), HTMLScene>(world, func, ()).unwrap()
\* The call checks the closure and the system out, runs the body and checks
\* both back in.
RunXFuncsStep ==
    /\ pc = "run" /\ panicked = ""
    /\ Len(ran) < Len(toRun)
    /\ LET name == toRun[Len(ran) + 1].func
           r == CallEntry(name, "Unit")
       IN IF r = "run" /\ systems[name].tout = "HTMLScene"
          THEN /\ number' = SystemEffect(name, number)
               /\ ran' = Append(ran, SystemResult(name, number'))
               /\ callLog' = Append(callLog, [name |-> name, sawPre |-> Graph = pre])
               /\ lastCall' = [name |-> name, tin |-> "Unit", outcome |-> "Some"]
               /\ pc' = IF Len(ran') = Len(toRun) THEN "swap" ELSE "run"
               /\ UNCHANGED <<graphVars, assets, unloaded, systems, callSlot, sysSlot, stack,
                              bodyRuns, order, built, ticks, toRun, cmdQueue, panicked, pre, swapLog,
                              asmLog>>
          ELSE /\ lastCall' = [name |-> name, tin |-> "Unit",
                               outcome |-> IF r = "None" THEN "None" ELSE "panic"]
               /\ panicked' = IF r = "None" THEN "run_x_funcs: unwrap() on None"
                              ELSE "call_reflect"
               /\ UNCHANGED <<graphVars, resVars, systems, callSlot, sysSlot, stack, bodyRuns,
                              passVars, built, histVars>>

\* the entities a target rule resolves to; the Name query yields the first
\* match of its iteration order, ChildName the first match breadth first
TargetCandidates(t) ==
    CASE t.target.variant = "This" -> {t.entity}
      [] t.target.variant = "Name" -> {e \in alive : nameOf[e] = t.target.payload[1]}
      [] t.target.variant = "ChildName" ->
            LET d == Descendants(World, t.entity)
                hit == {i \in 1..Len(d) : nameOf[d[i]] = t.target.payload[1]}
            IN IF hit = {} THEN {} ELSE {d[CHOOSE i \in hit : \A j \in hit : i <= j]}
      [] OTHER -> {}

\* swap_system, one iteration of its loop per step: resolve the target, add
\* the document to Assets<HTMLScene>, queue the commands of the swap
SwapSystemStep ==
    /\ pc = "swap" /\ panicked = ""
    /\ Len(cmdQueue) < Len(toRun)
    /\ LET i == Len(cmdQueue) + 1
           t == toRun[i]
           h == Cardinality(DOMAIN assets) + 1
       IN IF t.target.variant \notin {"This", "Name", "ChildName"}
          THEN /\ panicked' = "swap_system: unimplemented!()"
               /\ UNCHANGED <<graphVars, resVars, regVars, passVars, built, histVars>>
          ELSE IF TargetCandidates(t) = {}
          THEN /\ panicked' = "swap_system: unwrap() on None"
               /\ UNCHANGED <<graphVars, resVars, regVars, passVars, built, histVars>>
          ELSE /\ \E tgt \in TargetCandidates(t) :
                    IF t.swap.variant = "Outer"
                    THEN /\ cmdQueue' = Append(cmdQueue,
                                [mode |-> "Outer", target |-> tgt, h |-> h, child |-> 0])
                         /\ UNCHANGED <<graphVars, panicked>>
                    ELSE /\ cmdQueue' = Append(cmdQueue,
                                [mode |-> t.swap.variant, target |-> tgt, h |-> h,
                                 child |-> nextId])
                         /\ \E w0 \in {World} : \E w1 \in {Reserve(w0)} : SetWorld(w1)
               /\ assets' = [x \in (DOMAIN assets) \cup {h} |->
                                IF x = h THEN ran[i] ELSE assets[x]]
               /\ pc' = IF i = Len(toRun) THEN AfterPipe ELSE "swap"
               /\ UNCHANGED <<unloaded, number, regVars, order, built, ticks, toRun, ran, histVars>>

\* where the tick goes once a command flush has emptied the queue
AfterFlush ==
    IF pc = "flush" THEN "idle" ELSE IF order = "pipe_first" THEN "spawn" ELSE "find"

\* apply_deferred, and the flush at the end of the schedule: the queued
\* commands are applied in order, one swap's commands per step
ApplyDeferred ==
    /\ pc \in {"apply", "flush"} /\ panicked = ""
    /\ IF cmdQueue = <<>>
       THEN /\ pc' = AfterFlush
            /\ UNCHANGED <<graphVars, resVars, regVars, order, built, ticks, toRun, ran, cmdQueue,
                           panicked, histVars>>
       ELSE /\ \E w0 \in {World} : \E w1 \in {ApplySwap(w0, Head(cmdQueue))} : SetWorld(w1)
            /\ cmdQueue' = Tail(cmdQueue)
            /\ swapLog' = Append(swapLog, Head(cmdQueue))
            /\ UNCHANGED <<resVars, regVars, pc, order, built, ticks, toRun, ran, pre, callLog, asmLog>>

\* an ascending enumeration of a finite set of entities
RECURSIVE Ascending(_)
Ascending(S) ==
    IF S = {} THEN <<>>
    ELSE LET m == CHOOSE x \in S : \A y \in S : x <= y
         IN <<m>> \o Ascending(S \ {m})

\* a loop of spawn_scene_system that assembles without inserting the
\* HTMLSceneInstance marker
RECURSIVE SpawnAllUnmarked(_, _, _, _)
SpawnAllUnmarked(todo, i, w, log) ==
    IF w.panic # "" \/ i > Len(todo) THEN [w |-> w, log |-> log]
    ELSE IF w.handle[todo[i]] \in unloaded THEN SpawnAllUnmarked(todo, i + 1, w, log)
    ELSE Bind(spawn_scene(DocOf(assets[w.handle[todo[i]]]), todo[i], w), LAMBDA w2 :
            Bind(Append(log, [e |-> todo[i], key |-> assets[w.handle[todo[i]]],
                              before |-> w.facets[todo[i]], aliveBefore |-> w.alive,
                              ok |-> w2.panic = ""]), LAMBDA log2 :
                SpawnAllUnmarked(todo, i + 1, w2, log2)))

\* the loop of spawn_scene_system over the entities collected beforehand;
\* the result is [w, log]
RECURSIVE SpawnAll(_, _, _, _)
SpawnAll(todo, i, w, log) ==
    IF w.panic # "" \/ i > Len(todo) THEN [w |-> w, log |-> log]
    ELSE IF w.handle[todo[i]] \in unloaded THEN SpawnAll(todo, i + 1, w, log)
    ELSE Bind(spawn_scene(DocOf(assets[w.handle[todo[i]]]), todo[i],
                          [w EXCEPT !.instance = @ \cup {todo[i]}]), LAMBDA w2 :
            Bind(Append(log, [e |-> todo[i], key |-> assets[w.handle[todo[i]]],
                              before |-> w.facets[todo[i]], aliveBefore |-> w.alive,
                              ok |-> w2.panic = ""]), LAMBDA log2 :
                SpawnAll(todo, i + 1, w2, log2)))

\* spawn_scene_system: every entity with a Handle<HTMLScene> and without
\* HTMLSceneInstance whose asset is available is marked and assembled
SpawnSceneSystem ==
    /\ pc = "spawn" /\ panicked = ""
    /\ \E todo \in {Ascending({e \in alive : handle[e] # 0 /\ e \notin instance})} :
       \E w0 \in {World} :
       \E r \in {SpawnAll(todo, 1, w0, <<>>)} :
          /\ SetWorld(r.w)
          /\ asmLog' = r.log
    /\ pc' = "flush"
    /\ UNCHANGED <<resVars, regVars, order, built, ticks, toRun, ran, cmdQueue, pre, callLog, swapLog>>

\* bevy_ui's focus system, between passes: the pointer presses or releases
\* a clickable entity (one with an Interaction component and XOn = Click)
SetInteraction(e, v) ==
    /\ pc = "idle" /\ panicked = ""
    /\ e \in alive /\ "Interaction" \in DOMAIN facets[e]
    /\ e \in XEntities /\ XOnOf(e).variant = "Click"
    /\ facets[e]["Interaction"] # Unit(v)
    /\ facets' = [facets EXCEPT ![e]["Interaction"] = Unit(v)]
    /\ changedI' = changedI \cup {e}
    /\ UNCHANGED <<alive, children, parent, nameOf, handle, instance, added, nextId,
                   resVars, regVars, passVars, built, panicked, histVars>>

\* the asset server finishes loading a document
AssetLoaded ==
    /\ pc = "idle" /\ panicked = ""
    /\ unloaded # {}
    /\ unloaded' = {}
    /\ UNCHANGED <<graphVars, assets, number, regVars, passVars, built, panicked, histVars>>

\* fn startup: one entity holding the handle of the scene document
Init ==
    /\ alive = {1}
    /\ facets = (1 :> <<>>) /\ children = (1 :> <<>>) /\ parent = (1 :> 0)
    /\ nameOf = (1 :> "") /\ handle = (1 :> 1)
    /\ instance = {} /\ added = {} /\ changedI = {} /\ nextId = 2
    /\ \E t \in Triggers : \E more \in {<<>>} \cup {<<u>> : u \in SecondTriggers} :
          assets = (1 :> DocKey("scene", 0, <<t>> \o more))
    /\ unloaded \in {{}, {1}}
    /\ number = 0
    /\ systems = [n \in AppSystems |->
                    [entity |-> AppSystemEntity(n), tin |-> "Unit", tout |-> "HTMLScene"]]
    /\ callSlot = [x \in {AppSystemEntity(n) : n \in AppSystems} |-> "Some"]
    /\ sysSlot = [x \in {AppSystemEntity(n) : n \in AppSystems} |-> "Some"]
    /\ stack = <<>>
    /\ bodyRuns = [x \in {AppSystemEntity(n) : n \in AppSystems} |-> 0]
    /\ lastCall = NoCall
    /\ pc = "idle" /\ order \in Orders /\ ticks = 0
    /\ toRun = <<>> /\ ran = <<>> /\ cmdQueue = <<>>
    /\ panicked = ""
    /\ pre = Graph
    /\ callLog = <<>> /\ swapLog = <<>> /\ asmLog = <<>>
    /\ built = NoBuilt

Next ==
    \/ BeginTick
    \/ FindToRun
    \/ RunXFuncsStep
    \/ SwapSystemStep
    \/ ApplyDeferred
    \/ SpawnSceneSystem
    \/ \E e \in alive : \E v \in {"Pressed", "None"} : SetInteraction(e, v)
    \/ AssetLoaded

Spec == Init /\ [][Next]_vars


----------------------------------------------------------------------------
(* The registry on its own: a host that registers systems and calls them   *)
(* by name, and bodies that call the registry while they run.  The entity  *)
(* graph of the scenes plays no part and stays empty.                      *)

InitReg ==
    /\ alive = {} /\ facets = <<>> /\ children = <<>> /\ parent = <<>>
    /\ nameOf = <<>> /\ handle = <<>>
    /\ instance = {} /\ added = {} /\ changedI = {} /\ nextId = 1
    /\ assets = <<>> /\ unloaded = {} /\ number = 0
    /\ systems = <<>> /\ callSlot = <<>> /\ sysSlot = <<>>
    /\ stack = <<>> /\ bodyRuns = <<>>
    /\ lastCall = NoCall
    /\ pc = "idle" /\ order = "pipe_first" /\ ticks = 0
    /\ toRun = <<>> /\ ran = <<>> /\ cmdQueue = <<>>
    /\ panicked = ""
    /\ pre = Graph
    /\ callLog = <<>> /\ swapLog = <<>> /\ asmLog = <<>>
    /\ built = NoBuilt

NextReg ==
    \/ \E name \in SystemNames : \E tin \in InTypes : \E tout \in OutTypes :
          Register(name, tin, tout) /\ UNCHANGED <<graphVars, resVars, passVars, built, histVars>>
    \/ \E name \in CallNames : \E tin \in InTypes : \E tout \in OutTypes :
          CallEnter(name, tin, tout) /\ UNCHANGED <<graphVars, resVars, passVars, built, histVars>>
    \/ CallReturn /\ UNCHANGED <<graphVars, resVars, passVars, built, histVars>>

SpecReg == InitReg /\ [][NextReg]_vars


----------------------------------------------------------------------------
(* Properties.                                                             *)

\* a node with no facet and no child, alone in the world
EmptyNode ==
    [alive |-> {1}, facets |-> (1 :> <<>>), children |-> (1 :> <<>>), parent |-> (1 :> 0),
     nameOf |-> (1 :> ""), handle |-> (1 :> 0), instance |-> {1}, added |-> {},
     changedI |-> {}, nextId |-> 2, panic |-> ""]
\* the fresh assembly of a document into an empty node (the node is 1)
FreshAssembly(key) == spawn_scene(DocOf(key), 1, EmptyNode)

\* the swap applied by a step of apply_deferred (or of the final flush)
ApplyStep == pc \in {"apply", "flush"} /\ cmdQueue # <<>> /\ cmdQueue' = Tail(cmdQueue)
\* entity e was assembled in this tick from an empty state, and the result
\* is the fresh assembly of its document
AssembledFresh(e) ==
    \A i \in 1..Len(asmLog) :
        (asmLog[i].e = e /\ asmLog[i].ok) =>
            LET f == FreshAssembly(asmLog[i].key)
            IN /\ facets[e] = f.facets[1]
               /\ nameOf[e] = f.nameOf[1]
               /\ Len(children[e]) = Len(f.children[1])

\* C1: within one pass every function call sees the graph as it was when the
\* pass began, and no swap is queued or applied before every triggered
\* node's function has been called and has returned its document.
C1_BatchIsolation ==
    /\ \A i \in 1..Len(callLog) : callLog[i].sawPre
    /\ pc = "run" => (Graph = pre /\ cmdQueue = <<>> /\ swapLog = <<>>)
    /\ (cmdQueue # <<>> \/ swapLog # <<>>) =>
          (Len(ran) = Len(toRun) /\ Len(callLog) = Len(toRun))
\* two functions were called in a pass and a swap of the pass was applied
C1_Witness ==
    /\ Len(callLog) >= 2 /\ swapLog # <<>> /\ panicked = ""
    /\ callLog[1].name = "increment"

\* C2: after an outer swap was applied and its target assembled, the
\* target's facet set is exactly the facet set of a fresh assembly of the
\* replacement document.
C2_OuterSwapFacets ==
    (pc = "flush" /\ panicked = "") =>
        \A i \in 1..Len(asmLog) : \A j \in 1..Len(swapLog) :
            (/\ swapLog[j].mode = "Outer" /\ swapLog[j].target = asmLog[i].e
             /\ handle[asmLog[i].e] = swapLog[j].h /\ asmLog[i].ok)
            => facets[asmLog[i].e] = FreshAssembly(asmLog[i].key).facets[1]

\* C3: once a tick that applied an outer swap is over, the target holds the
\* content of the most recent replacement document: its Counter has the
\* document's count and it has the document's one child.
C3_OuterSwapReassembles ==
    (pc = "idle" /\ panicked = "" /\ order = "pipe_first") =>
        \A j \in 1..Len(swapLog) :
            (/\ swapLog[j].mode = "Outer" /\ swapLog[j].target \in alive
             /\ handle[swapLog[j].target] = swapLog[j].h
             /\ assets[swapLog[j].h].kind = "number")
            => /\ "Counter" \in DOMAIN facets[swapLog[j].target]
               /\ facets[swapLog[j].target]["Counter"].count = assets[swapLog[j].h].n
               /\ Len(children[swapLog[j].target]) = 1

\* C4: applying an inner swap removes every descendant of the target, leaves
\* the target's facets as they were and makes a new identity the target's
\* only child; that child is assembled as a fresh assembly of the document.
C4_InnerStep ==
    (ApplyStep /\ Head(cmdQueue).mode = "Inner" /\ panicked' = "") =>
        LET g == Head(cmdQueue)
        IN /\ children'[g.target] = <<g.child>>
           /\ parent'[g.child] = g.target
           /\ g.child \notin alive /\ g.child \in alive'
           /\ \A d \in SeqToSet(Descendants(World, g.target)) : d \notin alive'
           /\ alive' = (alive \ SeqToSet(Descendants(World, g.target))) \cup {g.child}
           /\ g.target \in alive'
           /\ facets'[g.target] = facets[g.target]
           /\ handle'[g.child] = g.h /\ facets'[g.child] = <<>>
C4_InnerAssembled ==
    (pc = "flush" /\ panicked = "") =>
        \A j \in 1..Len(swapLog) :
            swapLog[j].mode = "Inner" => AssembledFresh(swapLog[j].child)
C4_InnerSwap == [][C4_InnerStep]_vars /\ []C4_InnerAssembled
\* an inner swap replaced the children of a target that had some, and the
\* new child has been assembled
C4_Witness ==
    /\ pc = "flush" /\ panicked = ""
    /\ \E j \in 1..Len(swapLog) : \E i \in 1..Len(asmLog) :
          /\ swapLog[j].mode = "Inner" /\ asmLog[i].e = swapLog[j].child /\ asmLog[i].ok
          /\ pre.children[swapLog[j].target] # <<>>
          /\ children[swapLog[j].target] = <<swapLog[j].child>>
          /\ "Counter" \in DOMAIN facets[swapLog[j].child]

\* C5: applying a prepend (Front) or append (Back) swap keeps every entity,
\* the target's facets and its children in their order, and adds one new
\* identity as first (Front) or last (Back) child; that child is assembled
\* as a fresh assembly of the document.
C5_FrontBackStep ==
    (ApplyStep /\ Head(cmdQueue).mode \in {"Front", "Back"} /\ panicked' = "") =>
        LET g == Head(cmdQueue)
        IN /\ children'[g.target] = IF g.mode = "Front"
                                    THEN <<g.child>> \o children[g.target]
                                    ELSE children[g.target] \o <<g.child>>
           /\ parent'[g.child] = g.target
           /\ g.child \notin alive /\ alive' = alive \cup {g.child}
           /\ facets'[g.target] = facets[g.target]
           /\ \A x \in alive \ {g.target} :
                 children'[x] = children[x] /\ facets'[x] = facets[x]
           /\ handle'[g.child] = g.h /\ facets'[g.child] = <<>>
C5_FrontBackAssembled ==
    (pc = "flush" /\ panicked = "") =>
        \A j \in 1..Len(swapLog) :
            swapLog[j].mode \in {"Front", "Back"} => AssembledFresh(swapLog[j].child)
C5_FrontBackSwap == [][C5_FrontBackStep]_vars /\ []C5_FrontBackAssembled
\* a prepend put an assembled new child before the existing children
C5_Witness ==
    /\ pc = "flush" /\ panicked = ""
    /\ \E j \in 1..Len(swapLog) : \E i \in 1..Len(asmLog) :
          /\ swapLog[j].mode = "Front" /\ asmLog[i].e = swapLog[j].child /\ asmLog[i].ok
          /\ Len(children[swapLog[j].target]) >= 2
          /\ children[swapLog[j].target][1] = swapLog[j].child
          /\ "Counter" \in DOMAIN facets[swapLog[j].child]

\* C6: whenever the scene assembler is about to run, every swap command the
\* patch pass of this tick queued has been applied.
C6_SwapsAppliedBeforeAssembler == pc = "spawn" => cmdQueue = <<>>


\* C7: while a named system executes, its closure and its system are checked
\* out; no system has two executions in progress; a call that finds the
\* entry checked out fails (a panic at take().unwrap()) with the body not
\* started again; every entry that is not executing is checked in.
C7_CheckedOutWhileExecuting ==
    /\ \A i \in 1..Len(stack) :
          callSlot[stack[i].entity] = "None" /\ sysSlot[stack[i].entity] = "None"
    /\ \A i \in 1..Len(stack) : \A j \in 1..Len(stack) :
          stack[i].entity = stack[j].entity => i = j
    /\ panicked = "call_reflect: take().unwrap() on None" =>
          /\ lastCall.name \in DOMAIN systems
          /\ \E i \in 1..Len(stack) : stack[i].entity = systems[lastCall.name].entity
    /\ panicked = "" =>
          \A ent \in DOMAIN callSlot :
              (\A i \in 1..Len(stack) : stack[i].entity # ent) =>
                  (callSlot[ent] = "Some" /\ sysSlot[ent] = "Some")
\* a system ran and returned, was called again, and a call to its name from
\* inside that second execution failed
C7_Witness ==
    /\ panicked = "call_reflect: take().unwrap() on None"
    /\ Len(stack) = 1
    /\ lastCall.name = stack[1].name
    /\ bodyRuns[stack[1].entity] = 2

\* C8: a call whose input is not of the registered input type does not
\* panic, runs nothing and leaves the entry checked in.
C8_MismatchStep ==
    \A name \in SystemNames : \A tin \in InTypes : \A tout \in OutTypes :
        (/\ name \in DOMAIN systems
         /\ tin # systems[name].tin
         /\ callSlot[systems[name].entity] = "Some"
         /\ sysSlot[systems[name].entity] = "Some"
         /\ CallEnter(name, tin, tout))
        => /\ panicked' = ""
           /\ callSlot' = callSlot /\ sysSlot' = sysSlot
           /\ stack' = stack /\ bodyRuns' = bodyRuns
C8_TypeMismatchConfined == [][C8_MismatchStep]_vars

\* C9: the call of a name without an entry returns None to its caller,
\* runs no function and leaves the registry, the resources and the graph
\* as they were.
C9_UnknownStep ==
    (/\ pc = "run" /\ panicked = "" /\ Len(ran) < Len(toRun)
     /\ toRun[Len(ran) + 1].func \notin DOMAIN systems)
    => /\ lastCall' = [name |-> toRun[Len(ran) + 1].func, tin |-> "Unit", outcome |-> "None"]
       /\ UNCHANGED <<graphVars, resVars, systems, callSlot, sysSlot, stack, bodyRuns,
                      ran, callLog, cmdQueue>>
C9_UnknownFunction == [][C9_UnknownStep]_vars
\* a function was called before the unregistered name was asked for
C9_Witness ==
    /\ lastCall.outcome = "None" /\ lastCall.name = "missing"
    /\ Len(callLog) = 1 /\ Len(toRun) = 2

\* C10: an assembly that failed left the target's facets and the set of
\* entities as they were when it began.
C10_FailedAssemblyLeavesNothing ==
    \A i \in 1..Len(asmLog) :
        ~asmLog[i].ok =>
            /\ facets[asmLog[i].e] = asmLog[i].before
            /\ alive = asmLog[i].aliveBefore


----------------------------------------------------------------------------
(* construct_instance on its own: one call with a registered type and an   *)
(* optional attribute text, the result kept in `built`.                    *)

\* the field lists written for Counter and InterimTextStyle: every subset
\* of the fields, in both orders, and one with a key that is no field
FieldTexts ==
    { CFields(<<>>),
      CFields(<<KV("count", CInt(3))>>),
      CFields(<<KV("step", CInt(2))>>),
      CFields(<<KV("count", CInt(3)), KV("step", CInt(2))>>),
      CFields(<<KV("step", CInt(2)), KV("count", CInt(3))>>),
      CFields(<<KV("size", CInt(30))>>),
      CFields(<<KV("color", CStr("black"))>>),
      CFields(<<KV("size", CInt(30)), KV("color", CStr("black"))>>),
      CFields(<<KV("count", CInt(3)), KV("colour", CInt(1))>>) }
\* the attribute texts tried
AttrValues ==
    FieldTexts \cup
    { NoValue, CBad, CInt(3), CStr("black"), CStr("increment"), CIdent("Click"),
      CIdent("None"), CCall("Local", <<CInt(5)>>), CCall("Name", <<CStr("number")>>) }

\* construct_instance(world, type_registry, key_type, value) called once
Construct(t, value) ==
    /\ built = NoBuilt /\ panicked = ""
    /\ \E r \in {construct_instance(t, value)} :
          /\ built' = [t |-> t, value |-> value, ok |-> r.ok, v |-> r.v]
          /\ panicked' = IF r.ok THEN "" ELSE "construct_instance"
    /\ UNCHANGED <<graphVars, resVars, regVars, passVars, histVars>>

InitCons == InitReg

NextCons == \E t \in RegisteredTypes : \E value \in AttrValues : Construct(t, value)

SpecCons == InitCons /\ [][NextCons]_vars


\* the value a literal of an attribute text denotes
Literal(c) == IF c.k = "int" THEN c.n ELSE c.s
\* the text given to field f in a field list, NoValue when f is not named
FieldText(kvs, f) ==
    LET hit == {j \in 1..Len(kvs) : kvs[j].key = f}
    IN IF hit = {} THEN NoValue ELSE kvs[CHOOSE j \in hit : \A k \in hit : k <= j].c

\* C14: construct_instance without an attribute value gives the default
\* instance of a type that has a default factory, and for a type without
\* one it returns an error value to its caller instead of panicking.
C14_AbsentValue ==
    (built.t # "" /\ built.value = NoValue) =>
        IF built.t \in DefaultTypes
        THEN built.ok /\ built.v = DefaultOf(built.t)
        ELSE panicked = ""

\* C15: for a struct type with a default factory (Counter, InterimTextStyle:
\* the structs whose fields are declared here) and a field list naming a
\* subset of its fields, the instance has exactly the type's fields, each
\* named field holding its explicit value and each other field the
\* default's value.
C15_PartialPatch ==
    (/\ built.t \in StructTypes \cap DefaultTypes /\ StructFields(built.t) # <<>>
     /\ built.value.k = "fields" /\ built.ok) =>
        LET fs == StructFields(built.t)
            names == {fs[i][1] : i \in 1..Len(fs)}
        IN /\ DOMAIN built.v = names
           /\ \A f \in names :
                 built.v[f] = IF FieldText(built.value.sub, f) = NoValue
                              THEN DefaultOf(built.t)[f]
                              ELSE Literal(FieldText(built.value.sub, f))
\* Counter built from "step: 2": the step is explicit, the count the default
C15_Witness ==
    /\ built.t = "Counter" /\ built.ok
    /\ built.value = CFields(<<KV("step", CInt(2))>>)
    /\ built.v = [count |-> 0, step |-> 2]


\* C12: a by-name target that resolves to no entity does not end the pass:
\* swap_system never stops at the lookup of such a target.
C12_UnresolvedTargetSkipped ==
    ~ (/\ panicked = "swap_system: unwrap() on None"
       /\ toRun[Len(cmdQueue) + 1].target.variant = "Name")

\* C13: when a swap of the batch has failed in swap_system, every swap that
\* precedes it in the batch has been applied to the graph (none of them is
\* still waiting in the command queue).
C13_PrecedingSwapsCommitted ==
    panicked \in {"swap_system: unwrap() on None", "swap_system: unimplemented!()"} =>
        cmdQueue = <<>>

\* C19: no trigger kind ends the pass: find_to_run never stops on the
\* trigger kind of an x-entity.
C19_NoTriggerKindAborts == panicked # "find_to_run: unimplemented!()"


----------------------------------------------------------------------------
(* The assembler on its own: one entity holding the handle of a document   *)
(* that was parsed from its text, and one run of spawn_scene_system.       *)

\* the tag names, attributes and child lists the documents are written with
AsmTags == {"Entity", "Node", "Button", "Text", "Counter", "Row"}
AsmAttrs ==
    { Attr("Counter", CFields(<<KV("count", CInt(3))>>)),
      Attr("x", CFields(<<KV("count", CInt(5))>>)),
      Attr("Interaction", CIdent("Pressed")),
      Attr("BackgroundColor", CStr("black")),
      Attr("Button", NoValue),
      Attr("TextStyle", CFields(<<KV("size", CInt(30))>>)),
      Attr("XFunction", NoValue),
      Attr("Foo", NoValue) }
AsmNodes ==
    { <<>>,
      << TextNode("hi") >>,
      << El("Button", <<>>, "", <<>>) >>,
      << TextNode("hi"), El("Button", <<>>, "", <<>>) >>,
      << El("Row", <<>>, "", <<>>) >>,
      << El("Button", <<>>, "", <<>>), TextNode("hi"),
         El("Counter", <<Attr("Counter", CFields(<<KV("count", CInt(3))>>))>>, "", <<>>) >>,
      << El("Counter", <<>>, "", <<>>), El("Button", <<>>, "", <<>>) >>,
      << El("Entity", <<>>, "", << El("Counter", <<>>, "", <<>>), El("Button", <<>>, "", <<>>) >>),
         El("Counter", <<>>, "", <<>>) >> }
\* the attribute lists written: at most two attributes of different names
AsmAttrLists ==
    {<<>>} \cup {<<a>> : a \in AsmAttrs}
    \cup {<<ab[1], ab[2]>> : ab \in {x \in AsmAttrs \X AsmAttrs : x[1] # x[2]}}
\* the documents as written (attributes in document order)
AsmDocs ==
    {El(tag, attrs, "", nodes) : tag \in AsmTags, attrs \in AsmAttrLists, nodes \in AsmNodes}

\* Dom::parse: the element keeps its tag, id and children; its attributes
\* go into a HashMap, whose iteration order is any order of them
Parse(written) ==
    {[written EXCEPT !.attrs = [i \in 1..Len(written.attrs) |-> written.attrs[p[i]]]] :
        p \in Perms(1..Len(written.attrs))}
\* the asset made of a parsed document, with the text it was parsed from
ParsedKey(written, dom) == [kind |-> "parsed", written |-> written, dom |-> dom]

InitAsm ==
    /\ alive = {1}
    /\ facets = (1 :> <<>>) /\ children = (1 :> <<>>) /\ parent = (1 :> 0)
    /\ nameOf = (1 :> "") /\ handle = (1 :> 1)
    /\ instance = {} /\ added = {} /\ changedI = {} /\ nextId = 2
    /\ \E written \in AsmDocs : \E dom \in Parse(written) :
          assets = (1 :> ParsedKey(written, dom))
    /\ unloaded = {} /\ number = 0
    /\ systems = <<>> /\ callSlot = <<>> /\ sysSlot = <<>>
    /\ stack = <<>> /\ bodyRuns = <<>>
    /\ lastCall = NoCall
    /\ pc = "spawn" /\ order = "pipe_first" /\ ticks = 1
    /\ toRun = <<>> /\ ran = <<>> /\ cmdQueue = <<>>
    /\ panicked = ""
    /\ pre = Graph
    /\ callLog = <<>> /\ swapLog = <<>> /\ asmLog = <<>>
    /\ built = NoBuilt

NextAsm == SpawnSceneSystem

SpecAsm == InitAsm /\ [][NextAsm]_vars


----------------------------------------------------------------------------
(* Properties of the assembler on a parsed document.                       *)

\* the document spawn_scene_system assembled onto entity 1, once it has run
Assembled == Len(asmLog) = 1 /\ asmLog[1].e = 1
AsmWritten == asmLog[1].key.written
AsmDom == asmLog[1].key.dom

\* C11: assembling an element whose tag names no registered type fails with
\* an error value handed back to the caller of the assembler: the run of the
\* assembler returns, it does not take the program down.
C11_UnknownTagIsErrorValue ==
    (Assembled /\ AsmDom.tag \notin RegisteredTypes \cup {"Entity"}) =>
        /\ ~asmLog[1].ok
        /\ panicked = ""


\* the names of the (attribute, value) entries of element el
EntryNames(el) == {Components(el)[i].name : i \in 1..Len(Components(el))}
\* the names of the attributes written on the root element of template t
TemplateAttrNames(t) == {TemplateDoc(t).attrs[j].name : j \in 1..Len(TemplateDoc(t).attrs)}

\* C16: every entry of an element whose type is a template is expanded onto
\* the element's own node: after the assembly the node carries a facet for
\* each attribute of the root element of the template's subtree, as if those
\* attributes had been written on the element itself.
C16_TemplateExpandedInline ==
    (Assembled /\ asmLog[1].ok) =>
        \A t \in EntryNames(AsmDom) \cap TemplateTypes :
            TemplateAttrNames(t) \subseteq DOMAIN facets[1]


RECURSIVE EntriesFrom(_, _)
\* the entries that attach a facet while element el is assembled, from entry
\* i of el on, in processing order: for the tag entry of a template type the
\* entries of the template's root element come first, then the entry itself
EntriesFrom(el, i) ==
    IF i > Len(Components(el)) THEN <<>>
    ELSE LET c == Components(el)[i]
         IN (IF c.name \in {"Entity", "x"} \/ (c.name = "TextStyle" /\ c.value # NoValue)
             THEN <<>>
             ELSE (IF c.name = el.tag /\ c.name \in TemplateTypes
                   THEN EntriesFrom(TemplateDoc(c.name), 1) ELSE <<>>) \o <<c>>)
            \o EntriesFrom(el, i + 1)
\* the facet of type t constructed from the last entry of seq that names t
LastEntryFacet(seq, t) ==
    LET last == CHOOSE i \in 1..Len(seq) :
                    /\ seq[i].name = t
                    /\ \A j \in 1..Len(seq) : seq[j].name = t => j <= i
    IN ComponentValue(t, construct_instance(t, seq[last].value).v)

\* C17: after an element is assembled its node holds one facet per type
\* named by an entry of the processing sequence (the tag entry, the entries
\* of the tag's template, the declared attributes in document order) and no
\* other; where several entries name a type, the facet is the one built from
\* the last of them in that sequence.  (The Text facet is left out when the
\* element has literal text, which writes that facet after the entries.)
C17_LastEntryWins ==
    (Assembled /\ asmLog[1].ok) =>
        LET seq == EntriesFrom(AsmWritten, 1)
            named == {seq[i].name : i \in 1..Len(seq)}
            texted == IF \E i \in 1..Len(AsmDom.nodes) : ~IsElement(AsmDom.nodes[i])
                      THEN {"Text"} ELSE {}
        IN /\ DOMAIN facets[1] \ texted = named \ texted
           /\ \A t \in named \ texted : facets[1][t] = LastEntryFacet(seq, t)


\* the assembly of element el into an empty node (the node is 1)
FreshElement(el) == spawn_scene(el, 1, EmptyNode)

\* C18: the entries of an element are processed in the sequence: the tag
\* entry first, carrying the value of the attribute named "x" when there is
\* one and no value otherwise, then the declared attributes in the order the
\* document writes them; "x" and "Entity" are never looked up in the type
\* registry and attach no facet.  So an assembly that succeeds leaves the
\* facets that the processing of that sequence leaves.
C18_ProcessingSequence ==
    (Assembled /\ asmLog[1].ok) =>
        /\ facets[1] = FreshElement(AsmWritten).facets[1]
        /\ DOMAIN facets[1] \cap {"x", "Entity"} = {}

\* the text style an element's TextStyle attribute gives: the default style
\* without one, else InterimTextStyle's default patched with the attribute
StyleOf(el) ==
    LET hit == {i \in 1..Len(el.attrs) :
                   el.attrs[i].name = "TextStyle" /\ el.attrs[i].value # NoValue}
    IN IF hit = {} THEN DefaultTextStyle
       ELSE Apply("InterimTextStyle", DefaultOf("InterimTextStyle"),
                  Deserialize("InterimTextStyle",
                              WrapParens(el.attrs[CHOOSE i \in hit : TRUE].value)).v)
HasText(el) == \E i \in 1..Len(el.nodes) : ~IsElement(el.nodes[i])
HasElement(el) == \E i \in 1..Len(el.nodes) : IsElement(el.nodes[i])

\* C20: an element assembled without an entry of type Text gets a Text facet
\* if and only if its children contain literal text and no nested element;
\* the facet carries that text and the style of the element's TextStyle
\* attribute.
C20_TextFacetIff ==
    (Assembled /\ asmLog[1].ok /\ "Text" \notin EntryNames(AsmDom)) =>
        /\ "Text" \in DOMAIN facets[1] <=> (HasText(AsmDom) /\ ~HasElement(AsmDom))
        /\ "Text" \in DOMAIN facets[1] =>
              facets[1]["Text"] = [text |-> FirstText(AsmDom.nodes),
                                   size |-> StyleOf(AsmDom).size,
                                   color |-> StyleOf(AsmDom).color]

\* the child elements of an element, in document order
ChildElements(el) == SelectSeq(el.nodes, IsElement)

RECURSIVE AssembledFrom(_, _)
\* node e carries the assembly of element el: the facets and the name the
\* element gives an empty node, and one child per child element, in document
\* order, created by this run, with e as its parent and assembled in turn
AssembledFrom(e, el) ==
    /\ facets[e] = FreshElement([el EXCEPT !.nodes = SelectSeq(el.nodes, LAMBDA n : ~IsElement(n))]).facets[1]
    /\ nameOf[e] = el.id
    /\ Len(children[e]) = Len(ChildElements(el))
    /\ \A i \in 1..Len(children[e]) :
          /\ children[e][i] \in alive \ asmLog[1].aliveBefore
          /\ parent[children[e][i]] = e
          /\ \A j \in 1..Len(children[e]) : children[e][j] = children[e][i] => j = i
          /\ AssembledFrom(children[e][i], ChildElements(el)[i])

\* C21: after a successful assembly of an element onto a node that had no
\* children, the node's children list holds exactly one identity per child
\* element of the document, in document order, each created by the assembly,
\* each with the node as its parent, and each assembled from its own child
\* element in the same way.
C21_ChildrenInDocumentOrder ==
    (Assembled /\ asmLog[1].ok) =>
        /\ Len(children[1]) = Len(ChildElements(AsmDom))
        /\ \A i \in 1..Len(children[1]) :
              /\ children[1][i] \in alive \ asmLog[1].aliveBefore
              /\ parent[children[1][i]] = 1
              /\ \A j \in 1..Len(children[1]) : children[1][j] = children[1][i] => j = i
              /\ AssembledFrom(children[1][i], ChildElements(AsmDom)[i])
\* <Node><Entity><Counter/><Button/></Entity><Counter/></Node> is assembled:
\* the first child holds the two grandchildren in order, the second child is
\* the Counter
C21_Witness ==
    /\ Assembled /\ asmLog[1].ok
    /\ Len(ChildElements(AsmDom)) = 2
    /\ Len(ChildElements(ChildElements(AsmDom)[1])) = 2
    /\ Len(children[1]) = 2
    /\ Len(children[children[1][1]]) = 2
    /\ "Counter" \in DOMAIN facets[children[children[1][1]][1]]
    /\ "Button" \in DOMAIN facets[children[children[1][1]][2]]
    /\ "Counter" \in DOMAIN facets[children[1][2]]

\* the number of times the pass that ends in this step assembled node e
AssembliesOf(e) == Cardinality({i \in 1..Len(asmLog') : asmLog'[i].e = e})
\* the step leaves node e as it was
Untouched(e) ==
    /\ e \in alive' /\ facets'[e] = facets[e] /\ children'[e] = children[e]
    /\ handle'[e] = handle[e] /\ nameOf'[e] = nameOf[e]

\* one pass of the assembler, seen from each node that holds a handle
C22_PassStep ==
    (pc = "spawn" /\ pc' = "flush") =>
        \A e \in alive : handle[e] # 0 =>
            IF e \in instance
            THEN AssembliesOf(e) = 0 /\ Untouched(e) /\ e \in instance'
            ELSE IF handle[e] \in unloaded
            THEN AssembliesOf(e) = 0 /\ Untouched(e) /\ e \notin instance'
            ELSE /\ AssembliesOf(e) <= 1
                 /\ AssembliesOf(e) = 1 <=> e \in instance'
                 /\ panicked' = "" => AssembliesOf(e) = 1
\* C22: in every assembler pass a node that holds a document handle and
\* already has its instance marker is skipped; one without the marker whose
\* document is not available yet is left untouched and unmarked, so a later
\* pass finds it again; one without the marker whose document is available
\* is marked and assembled once in that pass (unless a panic cuts the pass
\* short before its turn).  So a node is assembled at most once while it
\* keeps its marker.
C22_AssembledAtMostOnce == [][C22_PassStep]_vars
\* a second pass has run that assembled the node added by a swap and skipped
\* the marked node 1, which still holds its handle
C22_Witness ==
    /\ ticks >= 2 /\ pc = "flush" /\ panicked = ""
    /\ 1 \in instance /\ handle[1] # 0
    /\ asmLog # <<>>
    /\ \A i \in 1..Len(asmLog) : asmLog[i].e # 1
\* the document of node 1 was not available in the first pass: the node was
\* left unmarked, and the second pass assembled it
C22_Retried ==
    /\ ticks = 2 /\ pc = "flush" /\ panicked = ""
    /\ 1 \in instance
    /\ \E i \in 1..Len(asmLog) : asmLog[i].e = 1 /\ asmLog[i].ok

RECURSIVE ResultsFrom(_, _, _)
\* the documents the functions of toRun[i..n] return when they are called in
\* that order with the Number resource at num before the first of them
ResultsFrom(i, n, num) ==
    IF i > n THEN <<>>
    ELSE <<SystemResult(toRun[i].func, SystemEffect(toRun[i].func, num))>>
         \o ResultsFrom(i + 1, n, SystemEffect(toRun[i].func, num))
RECURSIVE NumberAfter(_, _, _)
\* the Number resource after those calls
NumberAfter(i, n, num) ==
    IF i > n THEN num ELSE NumberAfter(i + 1, n, SystemEffect(toRun[i].func, num))
\* the swaps of the pass so far, applied or still queued, in the order
\* swap_system issued them
PassSwaps == swapLog \o cmdQueue

\* C23: in every pass the i-th result is the document returned by the call
\* of the i-th triggered node's function, the calls being made in trigger
\* order; once all calls are made there are as many results as triggered
\* nodes; the i-th swap issued takes its mode and its node from the i-th
\* trigger and its document from the i-th result, and the swaps are applied
\* in that order, all of them by the end of a pass that does not panic.
C23_TriggerResultPairing ==
    /\ Len(ran) <= Len(toRun) /\ Len(callLog) = Len(ran)
    /\ \A i \in 1..Len(ran) : callLog[i].name = toRun[i].func
    /\ \E num \in 0..number :
          /\ NumberAfter(1, Len(ran), num) = number
          /\ ran = ResultsFrom(1, Len(ran), num)
    /\ (pc # "run" /\ panicked = "") => Len(ran) = Len(toRun)
    /\ Len(PassSwaps) <= Len(ran)
    /\ \A k \in 1..Len(PassSwaps) :
          /\ assets[PassSwaps[k].h] = ran[k]
          /\ PassSwaps[k].mode = toRun[k].swap.variant
          /\ toRun[k].target.variant = "This" => PassSwaps[k].target = toRun[k].entity
    /\ (pc = "idle" /\ panicked = "") => (cmdQueue = <<>> /\ Len(swapLog) = Len(toRun))
\* a pass with two triggers, the first bound to increment and the second to
\* panel: both swaps are applied, the first with the number document and the
\* second with the panel document
C23_Witness ==
    /\ panicked = "" /\ Len(toRun) = 2 /\ Len(swapLog) = 2
    /\ toRun[1].func = "increment" /\ toRun[2].func = "panel"
    /\ assets[swapLog[1].h].kind = "number"
    /\ assets[swapLog[2].h].kind = "panel"

============================================================================
